---- MODULE Spec2Model ----
(***************************************************************************)
(* Print-job orchestration of task_printer.printing.worker: the in-memory  *)
(* job registry (JOBS, guarded by JOBS_LOCK), the FIFO work queue          *)
(* (JOB_QUEUE), ensure_worker, the enqueue helpers and the worker loop     *)
(* that drives the transport item by item.                                 *)
(*                                                                         *)
(* Threads: the callers of the public helpers (Producers) and the threads  *)
(* started by ensure_worker.  One action is one atomic step of one thread: *)
(* a critical section under JOBS_LOCK, a queue get/put, or a blocking call *)
(* of the worker.  What the environment decides (the clock, whether a      *)
(* config exists, whether the transport connects, whether a render or a    *)
(* write raises) is chosen with \E and written to the per-job log.         *)
(***************************************************************************)
EXTENDS Integers, Sequences, FiniteSets, TLC

\* ---------------------------------------------------------------- bounds
\* TASKPRINTER_JOBS_MAX (worker.py:42, default 200) taken small.
JOBS_MAX == 1
\* number of enqueue calls in one run
MaxJobs == 3
\* longest payload of a tasks job
MaxItems == 2
\* largest reading of the wall clock
MaxClock == 1
\* number of enqueue calls in a run of racing callers
MaxRaceJobs == 2
\* number of enqueue calls in a run with payloads of every shape
MaxPrintJobs == 2
\* largest tear_delay_seconds a caller submits (whole seconds)
MaxSubmitted == 62
\* longest run of letters in a word that is wrapped
MaxPart == 9
\* largest number of words of a text whose font size is looked for
MaxWords == 8

\* the threads that call the public helpers
Producers == {"p1", "p2"}
\* A worker thread is named after the caller whose ensure_worker started it;
\* "main" is the one started by create_app(register_worker=True).
Threads == Producers \cup {"main"}
\* every id a run can hand out
JobIds == 1..(MaxJobs + MaxPrintJobs + MaxRaceJobs)

\* An item is reduced to what the worker looks at first: is its text empty
\* after trimming.
ItemKinds == {"text", "empty"}
Payloads == UNION {[1..n -> ItemKinds] : n \in 1..MaxItems}
\* the flair of an item that has one (worker.py:208-231)
FlairKinds == {"icon", "image", "qr", "emoji"}
FlairPayloads == UNION {[1..n -> {"text"} \cup FlairKinds] : n \in 1..MaxItems}
\* tear_delay_seconds as it reaches the worker; 0 stands for "no options".
Delays == {0, 3}
\* _do_test_print: the fixed two-item payload
TestPairs == <<"text", "text">>

NoThread == "none"
NoResult == [id |-> 0, status |-> "unset"]
NoJob == [type |-> "none", payload |-> <<>>, options |-> 0, job_id |-> 0,
          config_override |-> FALSE]

VARIABLES
  JOB_QUEUE,       \* queue.Queue: sequence of work items, head first
  JOBS,            \* registry dict, as the sequence of its values in insertion order
  WORKER_THREAD,   \* the thread recorded by ensure_worker, or NoThread
  WORKER_STARTED,
  workers,         \* threads running _print_worker
  wpc, wjob, widx, wok, werr,   \* per worker: position, job, item index, ok, message
  wlog,            \* per worker: what it and the environment did for its job, in order
  ppc, pitem, prec, pres,  \* per producer: position, work item and job record
                           \* being enqueued, result of its last get_job
  clock,           \* last reading of the wall clock
  nextId,          \* number of ids handed out by uuid4 so far
  conn,            \* per job: state of the transport handle opened for it
  deq,             \* per job: how many times a worker took it off the queue
  ran,             \* ids of the jobs whose status has been set to running
  pre,             \* per job: ids whose enqueue had returned when its enqueue began
  call,            \* a call of a function outside the worker: its name and arguments
  result           \* what that call returned

vars == <<JOB_QUEUE, JOBS, WORKER_THREAD, WORKER_STARTED, workers,
          wpc, wjob, widx, wok, werr, wlog, ppc, pitem, prec, pres, clock,
          nextId, conn, deq, ran, pre, call, result>>

wvars == <<wpc, wjob, widx, wok, werr, wlog>>
pvars == <<ppc, pitem, prec, pres>>
tvars == <<WORKER_THREAD, WORKER_STARTED, workers>>
fvars == <<call, result>>

\* no call outside the worker is being followed
NoCall == [fn |-> "none"]
\* the call has not returned yet
NoReturn == [returned |-> FALSE]

\* ------------------------------------------------------------- helpers
\* _utc_now_iso: the readings the clock can give now (it never goes back;
\* two readings may be equal).
NowChoices == {clock} \cup (IF clock < MaxClock THEN {clock + 1} ELSE {})
\* the same with time standing still, where no timestamp matters
NowFrozen == {clock}

Ids(js) == {js[i].id : i \in 1..Len(js)}

\* sorted(JOBS.values(), key=created_at)[0]: the sort is stable, so the first
\* inserted of the jobs with the smallest created_at.
OldestIndex(js) ==
  CHOOSE i \in 1..Len(js) :
    /\ \A k \in 1..Len(js) : js[i].created_at <= js[k].created_at
    /\ \A k \in 1..(i - 1) : js[k].created_at > js[i].created_at

Pop(js, id) == SelectSeq(js, LAMBDA j : j.id # id)

\* the guard of _prune_jobs_if_needed
PruneNeeded(n) == ~(n <= JOBS_MAX)

PruneJobsIfNeeded(js) ==
  IF ~PruneNeeded(Len(js)) THEN js ELSE Pop(js, js[OldestIndex(js)].id)

NewJobRunning(id, kind, now, total, delay, origin) ==
  [id |-> id, type |-> kind, status |-> "running", created_at |-> now,
   updated_at |-> now, total |-> total, delay_seconds |-> delay,
   origin |-> origin, error |-> ""]

\* the record built by _create_job; total, delay_seconds and origin are the
\* meta keys (0 / "" when the key is not set).
NewJob(id, kind, now, total, delay, origin) ==
  [id |-> id, type |-> kind, status |-> "queued", created_at |-> now,
   updated_at |-> now, total |-> total, delay_seconds |-> delay,
   origin |-> origin, error |-> ""]

NoRec == NewJob(0, "none", 0, 0, 0, "")

CreateJobUnpruned(js, job) == Append(js, job)

\* _create_job, worker.py:80-82: prune, then insert
CreateJob(js, job) == Append(PruneJobsIfNeeded(js), job)

UpdateJobTouchesAll(js, id, updates, now) ==
  [i \in 1..Len(js) |->
     IF js[i].id = id
     THEN [f \in DOMAIN js[i] |->
             IF f = "updated_at" THEN now
             ELSE IF f \in DOMAIN updates THEN updates[f] ELSE js[i][f]]
     ELSE [js[i] EXCEPT !.updated_at = now]]

\* _update_job: no-op for an unknown id; sets the given fields and updated_at.
UpdateJob(js, id, updates, now) ==
  [i \in 1..Len(js) |->
     IF js[i].id = id
     THEN [f \in DOMAIN js[i] |->
             IF f = "updated_at" THEN now
             ELSE IF f \in DOMAIN updates THEN updates[f] ELSE js[i][f]]
     ELSE js[i]]

GetJob(js, id) ==
  IF id \in Ids(js) THEN js[CHOOSE i \in 1..Len(js) : js[i].id = id].status
  ELSE "none"

Logged(w, es) == [wlog EXCEPT ![w] = @ \o es]

\* ------------------------------------------------------- ensure_worker
\* Every caller in the repository runs ensure_worker() and then one enqueue;
\* the API caller then polls the job: idle -> ready -> ... -> have_id -> idle.
\* worker.py:386  the unlocked test of WORKER_STARTED / WORKER_THREAD.is_alive()
\* (a started worker thread never ends, so is_alive() is TRUE for it).
EnsureCheck(p) ==
  /\ ppc[p] = "idle"
  /\ pres' = [pres EXCEPT ![p] = NoResult]
  /\ IF WORKER_STARTED /\ WORKER_THREAD # NoThread /\ WORKER_THREAD \in workers
     THEN ppc' = [ppc EXCEPT ![p] = "ready"]
     ELSE ppc' = [ppc EXCEPT ![p] = "ew_start"]
  /\ UNCHANGED fvars
  /\ UNCHANGED <<JOB_QUEUE, JOBS, tvars, wvars, pitem, prec, clock,
                 nextId, conn, deq, ran, pre>>

\* worker.py:388-389  t = Thread(target=_print_worker); t.start()
\* The thread started by caller p is named after p.
EnsureStart(p) ==
  /\ ppc[p] = "ew_start"
  /\ workers' = workers \cup {p}
  /\ wpc' = [wpc EXCEPT ![p] = "get"]
  /\ ppc' = [ppc EXCEPT ![p] = "ew_set"]
  /\ UNCHANGED fvars
  /\ UNCHANGED <<JOB_QUEUE, JOBS, WORKER_THREAD, WORKER_STARTED, wjob, widx,
                 wok, werr, wlog, pitem, prec, pres, clock, nextId, conn, deq,
                 ran, pre>>

\* worker.py:390-391  WORKER_THREAD = t; WORKER_STARTED = True
EnsureRecord(p) ==
  /\ ppc[p] = "ew_set"
  /\ WORKER_THREAD' = p
  /\ WORKER_STARTED' = TRUE
  /\ ppc' = [ppc EXCEPT ![p] = "ready"]
  /\ UNCHANGED fvars
  /\ UNCHANGED <<JOB_QUEUE, JOBS, workers, wvars, pitem, prec, pres, clock,
                 nextId, conn, deq, ran, pre>>

\* ------------------------------------------------------------- enqueue
\* uuid4().hex: an id no earlier call got.
FreshId == nextId + 1

\* ids whose enqueue call has returned: every id handed out that no caller
\* is still between taking the id and the queue put.
Returned ==
  {j \in 1..nextId :
     ~\E p \in Producers :
        pitem[p].job_id = j /\ ppc[p] \in {"enq_create", "enq_put"}}

\* enqueue_tasks up to the lock of _create_job (worker.py:400-409, 69-79):
\* the payload is copied, the id and the timestamp are taken.  cap bounds the
\* number of enqueue calls of a run.
EnqueueTasksBegin(p, cap, payload, delay, now) ==
  /\ ppc[p] = "ready"
  /\ nextId < cap
  /\ clock' = now
  /\ prec' = [prec EXCEPT ![p] =
        NewJob(FreshId, "tasks", now, Len(payload),
               IF delay > 0 THEN delay ELSE 0, "")]
  /\ pitem' = [pitem EXCEPT ![p] =
        [type |-> "tasks", payload |-> payload, options |-> delay,
         job_id |-> FreshId, config_override |-> FALSE]]
  /\ pre' = [pre EXCEPT ![FreshId] = Returned]
  /\ nextId' = FreshId
  /\ ppc' = [ppc EXCEPT ![p] = "enq_create"]
  /\ UNCHANGED fvars
  /\ UNCHANGED <<JOB_QUEUE, JOBS, tvars, wvars, pres, conn, deq, ran>>

\* enqueue_test_print up to the lock of _create_job (worker.py:418-421)
EnqueueTestBegin(p, cap, override, now) ==
  /\ ppc[p] = "ready"
  /\ nextId < cap
  /\ clock' = now
  /\ prec' = [prec EXCEPT ![p] =
        NewJob(FreshId, "test", now, 0, 0, IF override THEN "setup" ELSE "")]
  /\ pitem' = [pitem EXCEPT ![p] =
        [type |-> "test", payload |-> <<>>, options |-> 0,
         job_id |-> FreshId, config_override |-> override]]
  /\ pre' = [pre EXCEPT ![FreshId] = Returned]
  /\ nextId' = FreshId
  /\ ppc' = [ppc EXCEPT ![p] = "enq_create"]
  /\ UNCHANGED fvars
  /\ UNCHANGED <<JOB_QUEUE, JOBS, tvars, wvars, pres, conn, deq, ran>>

\* _create_job, worker.py:80-82: prune and insert under JOBS_LOCK
EnqueueCreate(p) ==
  /\ ppc[p] = "enq_create"
  /\ JOBS' = CreateJob(JOBS, prec[p])
  /\ prec' = [prec EXCEPT ![p] = NoRec]
  /\ ppc' = [ppc EXCEPT ![p] = "enq_put"]
  /\ UNCHANGED fvars
  /\ UNCHANGED <<JOB_QUEUE, tvars, wvars, pitem, pres, clock, nextId,
                 conn, deq, ran, pre>>

\* JOB_QUEUE.put(...) and the return of the id (worker.py:410-411, 423-427)
EnqueuePut(p) ==
  /\ ppc[p] = "enq_put"
  /\ JOB_QUEUE' = Append(JOB_QUEUE, pitem[p])
  /\ ppc' = [ppc EXCEPT ![p] = "have_id"]
  /\ UNCHANGED fvars
  /\ UNCHANGED <<JOBS, tvars, wvars, pitem, prec, pres, clock, nextId, conn,
                 deq, ran, pre>>

\* get_job(job_id), worker.py:430-436, by the caller that has just been handed
\* the id; "none" is the None of an unknown id.
GetJobCall(p) ==
  /\ ppc[p] = "have_id"
  /\ pres' = [pres EXCEPT ![p] =
        [id |-> pitem[p].job_id, status |-> GetJob(JOBS, pitem[p].job_id)]]
  /\ pitem' = [pitem EXCEPT ![p] = NoJob]
  /\ ppc' = [ppc EXCEPT ![p] = "idle"]
  /\ UNCHANGED fvars
  /\ UNCHANGED <<JOB_QUEUE, JOBS, tvars, wvars, prec, clock, nextId,
                 conn, deq, ran, pre>>

\* ------------------------------------------------------------- worker
\* worker.py:353  job = JOB_QUEUE.get()
WorkerGet(w) ==
  /\ w \in workers
  /\ wpc[w] = "get"
  /\ JOB_QUEUE # <<>>
  /\ wjob' = [wjob EXCEPT ![w] = Head(JOB_QUEUE)]
  /\ JOB_QUEUE' = Tail(JOB_QUEUE)
  /\ deq' = [deq EXCEPT ![Head(JOB_QUEUE).job_id] = @ + 1]
  /\ wpc' = [wpc EXCEPT ![w] = "mark"]
  /\ UNCHANGED fvars
  /\ UNCHANGED <<JOBS, tvars, widx, wok, werr, wlog, pvars, clock, nextId,
                 conn, ran, pre>>

WorkerMarkRunningSkipped(w, now) ==
  /\ w \in workers
  /\ wpc[w] = "mark"
  /\ wpc' = [wpc EXCEPT ![w] = "run"]
  /\ UNCHANGED fvars
  /\ UNCHANGED <<JOB_QUEUE, JOBS, tvars, wjob, widx, wok, werr, wlog, pvars,
                 clock, nextId, conn, deq, ran, pre>>

\* worker.py:357  _update_job(job_id, status="running")
WorkerMarkRunning(w, now) ==
  /\ w \in workers
  /\ wpc[w] = "mark"
  /\ clock' = now
  /\ JOBS' = UpdateJob(JOBS, wjob[w].job_id, [status |-> "running"], now)
  /\ ran' = IF wjob[w].job_id \in Ids(JOBS)
            THEN ran \cup {wjob[w].job_id} ELSE ran
  /\ wpc' = [wpc EXCEPT ![w] = "run"]
  /\ UNCHANGED fvars
  /\ UNCHANGED <<JOB_QUEUE, tvars, wjob, widx, wok, werr, wlog, pvars,
                 nextId, conn, deq, pre>>

\* The locals of one turn of the loop are dead once the turn ends.
ForgetLocals(w) ==
  /\ wjob' = [wjob EXCEPT ![w] = NoJob]
  /\ widx' = [widx EXCEPT ![w] = 0]
  /\ wok' = [wok EXCEPT ![w] = FALSE]
  /\ werr' = [werr EXCEPT ![w] = ""]
  /\ wlog' = [wlog EXCEPT ![w] = <<>>]

AfterExceptStops == "stopped"

\* where the loop goes once the handler of line 371 has run
AfterExcept == "get"

\* worker.py:359-370 with print_tasks:265-267 and _do_test_print:336-338:
\* the dispatch on the job kind and the config lookup.  present is what
\* load_config finds.  An unknown kind is marked error at once.
WorkerDispatch(w, present, now) ==
  /\ w \in workers
  /\ wpc[w] = "run"
  /\ LET job == wjob[w] IN
     IF job.type \in {"tasks", "test"}
     THEN IF present \/ (job.type = "test" /\ job.config_override)
          THEN /\ wpc' = [wpc EXCEPT ![w] = "connect"]
               /\ UNCHANGED <<werr, wlog, JOBS, clock>>
          ELSE /\ wpc' = [wpc EXCEPT ![w] = "except"]
               /\ werr' = [werr EXCEPT ![w] = "No config found"]
               /\ wlog' = Logged(w, <<<<"noconfig", 0>>>>)
               /\ UNCHANGED <<JOBS, clock>>
     ELSE /\ clock' = now
          /\ JOBS' = UpdateJob(JOBS, job.job_id,
                        [status |-> "error", error |-> "unknown_job_type"], now)
          /\ wpc' = [wpc EXCEPT ![w] = "get"]
          /\ UNCHANGED <<werr, wlog>>
  /\ UNCHANGED fvars
  /\ UNCHANGED <<JOB_QUEUE, tvars, wjob, widx, wok, pvars, nextId, conn,
                 deq, ran, pre>>

\* print_tasks:274 / print_tasks_with_config:319  p = _connect_printer(config);
\* a failure is caught by the same function, which returns False.
WorkerConnect(w, ok) ==
  /\ w \in workers
  /\ wpc[w] = "connect"
  /\ IF ok
     THEN /\ conn' = [conn EXCEPT ![wjob[w].job_id] = "open"]
          /\ wlog' = Logged(w, <<<<"connect", 0>>>>)
          /\ widx' = [widx EXCEPT ![w] = 1]
          /\ wpc' = [wpc EXCEPT ![w] = "items"]
          /\ UNCHANGED wok
     ELSE /\ wlog' = Logged(w, <<<<"connect_fail", 0>>>>)
          /\ wok' = [wok EXCEPT ![w] = FALSE]
          /\ wpc' = [wpc EXCEPT ![w] = "finish"]
          /\ UNCHANGED <<conn, widx>>
  /\ UNCHANGED fvars
  /\ UNCHANGED <<JOB_QUEUE, JOBS, tvars, wjob, werr, pvars, clock, nextId,
                 deq, ran, pre>>

\* the items the job prints and the options it prints them with
ItemsOf(job) == IF job.type = "test" THEN TestPairs ELSE job.payload

\* print_tasks:278-284  delay = float(options.get("tear_delay_seconds", 0) or 0)
\* print_tasks_with_config always cuts.
DelayOf(job) == IF job.type = "test" THEN 0 ELSE job.options
TearMode(job) == DelayOf(job) > 0

SleepsAfterEvery(job, i) == TearMode(job)

\* print_tasks:293  the sleep between items
SleepsAfter(job, i) == TearMode(job) /\ i < Len(ItemsOf(job))

\* _print_subtitle_task_item (worker.py:169-257) for an item with text: the
\* transport calls it makes when nothing raises.
ItemCalls(job, i) ==
  <<<<"image", i>>>> \o (IF ~TearMode(job) THEN <<<<"cut", i>>>> ELSE <<>>)

\* One turn of the loop of print_tasks:290-295 / print_tasks_with_config:320:
\* item widx is printed, then the worker sleeps in tear-off mode.  fault is
\* what raises inside the item: the render (before anything is written) or
\* the raster write.  Either ends the function in its except clause, which
\* returns False and leaves the handle as it is.
WorkerItem(w, fault) ==
  /\ w \in workers
  /\ wpc[w] = "items"
  /\ widx[w] <= Len(ItemsOf(wjob[w]))
  /\ ItemsOf(wjob[w])[widx[w]] \in ItemKinds
  /\ LET job == wjob[w]
         i == widx[w]
         sleep == IF SleepsAfter(job, i) THEN <<<<"sleep", DelayOf(job)>>>> ELSE <<>>
     IN  IF ItemsOf(job)[i] = "empty"
         THEN /\ wlog' = Logged(w, sleep)
              /\ widx' = [widx EXCEPT ![w] = i + 1]
              /\ UNCHANGED <<wpc, wok>>
         ELSE IF fault = "none"
              THEN /\ wlog' = Logged(w, ItemCalls(job, i) \o sleep)
                   /\ widx' = [widx EXCEPT ![w] = i + 1]
                   /\ UNCHANGED <<wpc, wok>>
              ELSE /\ wlog' = Logged(w, <<<<fault, i>>>>)
                   /\ wok' = [wok EXCEPT ![w] = FALSE]
                   /\ wpc' = [wpc EXCEPT ![w] = "finish"]
                   /\ UNCHANGED widx
  /\ UNCHANGED fvars
  /\ UNCHANGED <<JOB_QUEUE, JOBS, tvars, wjob, werr, pvars, clock, nextId,
                 conn, deq, ran, pre>>

\* worker.py:208-238 for an item with flair when nothing raises: an icon or
\* an image is composed with the text into one raster; a QR code is written
\* by itself, before the text-only raster; an emoji matches neither branch
\* of lines 213-229, combined_img stays None and the text is rendered alone.
FlairCalls(kind, i) ==
  IF kind = "qr" THEN <<<<"qr", i>>, <<"image", i>>>>
  ELSE IF kind = "emoji" THEN <<<<"image", i>>>>
  ELSE <<<<"image_flair", i>>>>

\* worker.py:230-231  the flair raised: logged, combined_img stays None and
\* the text is rendered alone (lines 236-238).
FlairFallback(i) == <<<<"flair_fail", i>>, <<"image", i>>>>

\* the same item of the loop of print_tasks, pushed to the handler of the job
\* by the flair that raised
WorkerFlairItemPropagates(w, raises, fault) ==
  /\ w \in workers
  /\ wpc[w] = "items"
  /\ widx[w] <= Len(ItemsOf(wjob[w]))
  /\ ItemsOf(wjob[w])[widx[w]] \in FlairKinds
  /\ LET job == wjob[w]
         i == widx[w]
         sleep == IF SleepsAfter(job, i) THEN <<<<"sleep", DelayOf(job)>>>> ELSE <<>>
         cut == IF ~TearMode(job) THEN <<<<"cut", i>>>> ELSE <<>>
     IN  IF raises
         THEN /\ wlog' = Logged(w, <<<<"flair_fail", i>>>>)
              /\ wok' = [wok EXCEPT ![w] = FALSE]
              /\ wpc' = [wpc EXCEPT ![w] = "finish"]
              /\ UNCHANGED widx
         ELSE IF fault = "none"
              THEN /\ wlog' = Logged(w, FlairCalls(ItemsOf(job)[i], i) \o cut \o sleep)
                   /\ widx' = [widx EXCEPT ![w] = i + 1]
                   /\ UNCHANGED <<wpc, wok>>
              ELSE /\ wlog' = Logged(w, <<<<fault, i>>>>)
                   /\ wok' = [wok EXCEPT ![w] = FALSE]
                   /\ wpc' = [wpc EXCEPT ![w] = "finish"]
                   /\ UNCHANGED widx
  /\ UNCHANGED fvars
  /\ UNCHANGED <<JOB_QUEUE, JOBS, tvars, wjob, werr, pvars, clock, nextId,
                 conn, deq, ran, pre>>

\* One turn of the loop of print_tasks:290-295 over an item with text and
\* flair.  raises: resolving, rasterizing or composing the flair raises, which
\* the try of lines 211-231 catches (nothing in it runs for an emoji).
\* fault: the render of the text or a write raises, which ends print_tasks
\* as for any item.
WorkerFlairItem(w, raises, fault) ==
  /\ w \in workers
  /\ wpc[w] = "items"
  /\ widx[w] <= Len(ItemsOf(wjob[w]))
  /\ ItemsOf(wjob[w])[widx[w]] \in FlairKinds
  /\ LET job == wjob[w]
         i == widx[w]
         sleep == IF SleepsAfter(job, i) THEN <<<<"sleep", DelayOf(job)>>>> ELSE <<>>
         cut == IF ~TearMode(job) THEN <<<<"cut", i>>>> ELSE <<>>
         caught == raises /\ ItemsOf(job)[i] # "emoji"
         flair == IF caught THEN FlairFallback(i) ELSE FlairCalls(ItemsOf(job)[i], i)
     IN  IF fault = "none"
         THEN /\ wlog' = Logged(w, flair \o cut \o sleep)
              /\ widx' = [widx EXCEPT ![w] = i + 1]
              /\ UNCHANGED <<wpc, wok>>
         ELSE /\ wlog' = Logged(w, (IF caught THEN <<<<"flair_fail", i>>>> ELSE <<>>)
                                     \o <<<<fault, i>>>>)
              /\ wok' = [wok EXCEPT ![w] = FALSE]
              /\ wpc' = [wpc EXCEPT ![w] = "finish"]
              /\ UNCHANGED widx
  /\ UNCHANGED fvars
  /\ UNCHANGED <<JOB_QUEUE, JOBS, tvars, wjob, werr, pvars, clock, nextId,
                 conn, deq, ran, pre>>

\* print_tasks:297-304 / print_tasks_with_config:322-326  p.close(); return True
WorkerClose(w) ==
  /\ w \in workers
  /\ wpc[w] = "items"
  /\ widx[w] > Len(ItemsOf(wjob[w]))
  /\ conn' = [conn EXCEPT ![wjob[w].job_id] = "closed"]
  /\ wlog' = Logged(w, <<<<"close", 0>>>>)
  /\ wok' = [wok EXCEPT ![w] = TRUE]
  /\ wpc' = [wpc EXCEPT ![w] = "finish"]
  /\ UNCHANGED fvars
  /\ UNCHANGED <<JOB_QUEUE, JOBS, tvars, wjob, widx, werr, pvars, clock,
                 nextId, deq, ran, pre>>

WorkerFinishRetry(w, now) ==
  /\ w \in workers
  /\ wpc[w] = "finish"
  /\ clock' = now
  /\ JOBS' = UpdateJob(JOBS, wjob[w].job_id,
               [status |-> IF wok[w] THEN "success" ELSE "error"], now)
  /\ JOB_QUEUE' = IF wok[w] THEN JOB_QUEUE ELSE Append(JOB_QUEUE, wjob[w])
  /\ wpc' = [wpc EXCEPT ![w] = "get"]
  /\ ForgetLocals(w)
  /\ UNCHANGED fvars
  /\ UNCHANGED <<tvars, pvars, nextId, conn, deq, ran, pre>>

WorkerFinishSuccessOnly(w, now) ==
  /\ w \in workers
  /\ wpc[w] = "finish"
  /\ clock' = now
  /\ JOBS' = IF wok[w]
             THEN UpdateJob(JOBS, wjob[w].job_id, [status |-> "success"], now)
             ELSE JOBS
  /\ wpc' = [wpc EXCEPT ![w] = "get"]
  /\ ForgetLocals(w)
  /\ UNCHANGED fvars
  /\ UNCHANGED <<JOB_QUEUE, tvars, pvars, nextId, conn, deq, ran, pre>>

\* worker.py:363/367  _update_job(job_id, status="success" if ok else "error"),
\* then task_done() and the next turn of the loop
WorkerFinish(w, now) ==
  /\ w \in workers
  /\ wpc[w] = "finish"
  /\ clock' = now
  /\ JOBS' = UpdateJob(JOBS, wjob[w].job_id,
               [status |-> IF wok[w] THEN "success" ELSE "error"], now)
  /\ wpc' = [wpc EXCEPT ![w] = "get"]
  /\ ForgetLocals(w)
  /\ UNCHANGED fvars
  /\ UNCHANGED <<JOB_QUEUE, tvars, pvars, nextId, conn, deq, ran, pre>>

WorkerExceptNoMessage(w, now) ==
  /\ w \in workers
  /\ wpc[w] = "except"
  /\ clock' = now
  /\ JOBS' = UpdateJob(JOBS, wjob[w].job_id, [status |-> "error"], now)
  /\ wpc' = [wpc EXCEPT ![w] = AfterExcept]
  /\ ForgetLocals(w)
  /\ UNCHANGED fvars
  /\ UNCHANGED <<JOB_QUEUE, tvars, pvars, nextId, conn, deq, ran, pre>>

\* worker.py:371-378  except Exception: _update_job(status="error", error=str(e))
WorkerExcept(w, now) ==
  /\ w \in workers
  /\ wpc[w] = "except"
  /\ clock' = now
  /\ JOBS' = UpdateJob(JOBS, wjob[w].job_id,
               [status |-> "error", error |-> werr[w]], now)
  /\ wpc' = [wpc EXCEPT ![w] = AfterExcept]
  /\ ForgetLocals(w)
  /\ UNCHANGED fvars
  /\ UNCHANGED <<JOB_QUEUE, tvars, pvars, nextId, conn, deq, ran, pre>>

Init ==
  /\ JOB_QUEUE = <<>>
  /\ JOBS = <<>>
  /\ WORKER_THREAD = NoThread
  /\ WORKER_STARTED = FALSE
  /\ workers = {}
  /\ wpc = [w \in Threads |-> "off"]
  /\ wjob = [w \in Threads |-> NoJob]
  /\ widx = [w \in Threads |-> 0]
  /\ wok = [w \in Threads |-> FALSE]
  /\ werr = [w \in Threads |-> ""]
  /\ wlog = [w \in Threads |-> <<>>]
  /\ ppc = [p \in Producers |-> "idle"]
  /\ pitem = [p \in Producers |-> NoJob]
  /\ prec = [p \in Producers |-> NoRec]
  /\ pres = [p \in Producers |-> NoResult]
  /\ clock = 0
  /\ nextId = 0
  /\ conn = [j \in JobIds |-> "none"]
  /\ deq = [j \in JobIds |-> 0]
  /\ ran = {}
  /\ pre = [j \in JobIds |-> {}]
  /\ call = NoCall
  /\ result = NoReturn

\* ------------------------------------------------------ specifications
\* what raises inside one item: nothing, the render, the raster write
ItemFaults == {"none", "render_fail", "write_fail"}

\* The state after create_app(register_worker=True): ensure_worker has run
\* once, before any caller exists.
InitStarted ==
  /\ JOB_QUEUE = <<>>
  /\ JOBS = <<>>
  /\ WORKER_THREAD = "main"
  /\ WORKER_STARTED = TRUE
  /\ workers = {"main"}
  /\ wpc = [w \in Threads |-> IF w = "main" THEN "get" ELSE "off"]
  /\ wjob = [w \in Threads |-> NoJob]
  /\ widx = [w \in Threads |-> 0]
  /\ wok = [w \in Threads |-> FALSE]
  /\ werr = [w \in Threads |-> ""]
  /\ wlog = [w \in Threads |-> <<>>]
  /\ ppc = [p \in Producers |-> "idle"]
  /\ pitem = [p \in Producers |-> NoJob]
  /\ prec = [p \in Producers |-> NoRec]
  /\ pres = [p \in Producers |-> NoResult]
  /\ clock = 0
  /\ nextId = 0
  /\ conn = [j \in JobIds |-> "none"]
  /\ deq = [j \in JobIds |-> 0]
  /\ ran = {}
  /\ pre = [j \in JobIds |-> {}]
  /\ call = NoCall
  /\ result = NoReturn

\* Spec: no worker at start (create_app(register_worker=False)); concurrent
\* callers race through ensure_worker and enqueue one-item jobs.  Timestamps
\* play no part, so the clock stands still.
Next ==
  \/ \E p \in Producers : EnsureCheck(p)
  \/ \E p \in Producers : EnsureStart(p)
  \/ \E p \in Producers : EnsureRecord(p)
  \/ \E p \in Producers, now \in NowFrozen :
       EnqueueTasksBegin(p, MaxRaceJobs, <<"text">>, 0, now)
  \/ \E p \in Producers : EnqueueCreate(p)
  \/ \E p \in Producers : EnqueuePut(p)
  \/ \E p \in Producers : GetJobCall(p)
  \/ \E w \in Producers : WorkerGet(w)
  \/ \E w \in Producers, now \in NowFrozen : WorkerMarkRunning(w, now)
  \/ \E w \in Producers, present \in BOOLEAN, now \in NowFrozen :
       WorkerDispatch(w, present, now)
  \/ \E w \in Producers : WorkerConnect(w, TRUE)
  \/ \E w \in Producers : WorkerItem(w, "none")
  \/ \E w \in Producers : WorkerClose(w)
  \/ \E w \in Producers, now \in NowFrozen : WorkerFinish(w, now)
  \/ \E w \in Producers, now \in NowFrozen : WorkerExcept(w, now)

Spec == Init /\ [][Next]_vars

\* SpecApp: the worker was started at startup; concurrent callers enqueue
\* one-item jobs while the clock runs.
NextApp ==
  \/ \E p \in Producers : EnsureCheck(p)
  \/ \E p \in Producers, now \in NowChoices :
       EnqueueTasksBegin(p, MaxJobs, <<"text">>, 0, now)
  \/ \E p \in Producers : EnqueueCreate(p)
  \/ \E p \in Producers : EnqueuePut(p)
  \/ \E p \in Producers : GetJobCall(p)
  \/ WorkerGet("main")
  \/ \E now \in NowFrozen : WorkerMarkRunning("main", now)
  \/ \E present \in BOOLEAN, now \in NowFrozen : WorkerDispatch("main", present, now)
  \/ WorkerConnect("main", TRUE)
  \/ WorkerItem("main", "none")
  \/ WorkerClose("main")
  \/ \E now \in NowFrozen : WorkerFinish("main", now)
  \/ \E now \in NowFrozen : WorkerExcept("main", now)

SpecApp == InitStarted /\ [][NextApp]_vars

\* SpecPrint: the worker was started at startup; one caller enqueues jobs of
\* every shape and the environment may fail at every point.
NextPrint ==
  \/ EnsureCheck("p1")
  \/ \E payload \in Payloads, delay \in Delays, now \in NowChoices :
       EnqueueTasksBegin("p1", MaxPrintJobs, payload, delay, now)
  \/ \E override \in BOOLEAN, now \in NowChoices :
       EnqueueTestBegin("p1", MaxPrintJobs, override, now)
  \/ EnqueueCreate("p1")
  \/ EnqueuePut("p1")
  \/ GetJobCall("p1")
  \/ WorkerGet("main")
  \/ \E now \in NowChoices : WorkerMarkRunning("main", now)
  \/ \E present \in BOOLEAN, now \in NowChoices : WorkerDispatch("main", present, now)
  \/ \E ok \in BOOLEAN : WorkerConnect("main", ok)
  \/ \E fault \in ItemFaults : WorkerItem("main", fault)
  \/ WorkerClose("main")
  \/ \E now \in NowChoices : WorkerFinish("main", now)
  \/ \E now \in NowChoices : WorkerExcept("main", now)

SpecPrint == InitStarted /\ [][NextPrint]_vars

\* SpecLive: one caller, one-item jobs; the worker thread is scheduled and
\* its blocking calls return: weak fairness of its steps.
LiveWorker ==
  \/ WorkerGet("main")
  \/ \E now \in NowFrozen : WorkerMarkRunning("main", now)
  \/ \E present \in BOOLEAN, now \in NowFrozen : WorkerDispatch("main", present, now)
  \/ \E ok \in BOOLEAN : WorkerConnect("main", ok)
  \/ \E fault \in {"none", "write_fail"} : WorkerItem("main", fault)
  \/ WorkerClose("main")
  \/ \E now \in NowFrozen : WorkerFinish("main", now)
  \/ \E now \in NowFrozen : WorkerExcept("main", now)

NextLive ==
  \/ EnsureCheck("p1")
  \/ \E now \in NowChoices : EnqueueTasksBegin("p1", MaxJobs, <<"text">>, 0, now)
  \/ EnqueueCreate("p1")
  \/ EnqueuePut("p1")
  \/ GetJobCall("p1")
  \/ LiveWorker

SpecLive == InitStarted /\ [][NextLive]_vars /\ WF_vars(LiveWorker)

\* SpecFlair: the worker was started at startup; one caller enqueues jobs
\* whose items have text, with or without flair; the flair, the render and
\* the writes may raise.
NextFlair ==
  \/ EnsureCheck("p1")
  \/ \E payload \in FlairPayloads, delay \in Delays, now \in NowFrozen :
       EnqueueTasksBegin("p1", MaxPrintJobs, payload, delay, now)
  \/ EnqueueCreate("p1")
  \/ EnqueuePut("p1")
  \/ GetJobCall("p1")
  \/ WorkerGet("main")
  \/ \E now \in NowFrozen : WorkerMarkRunning("main", now)
  \/ \E present \in BOOLEAN, now \in NowFrozen : WorkerDispatch("main", present, now)
  \/ \E ok \in BOOLEAN : WorkerConnect("main", ok)
  \/ \E fault \in ItemFaults : WorkerItem("main", fault)
  \/ \E raises \in BOOLEAN, fault \in ItemFaults : WorkerFlairItem("main", raises, fault)
  \/ WorkerClose("main")
  \/ \E now \in NowFrozen : WorkerFinish("main", now)
  \/ \E now \in NowFrozen : WorkerExcept("main", now)

SpecFlair == InitStarted /\ [][NextFlair]_vars

\* ------------------------------------------------- tear_delay_seconds
\* The state in which no job exists and the worker waits: the background of
\* the calls that are followed by themselves.
Quiet ==
  /\ JOB_QUEUE = <<>>
  /\ JOBS = <<>>
  /\ WORKER_THREAD = "main"
  /\ WORKER_STARTED = TRUE
  /\ workers = {"main"}
  /\ wpc = [w \in Threads |-> IF w = "main" THEN "get" ELSE "off"]
  /\ wjob = [w \in Threads |-> NoJob]
  /\ widx = [w \in Threads |-> 0]
  /\ wok = [w \in Threads |-> FALSE]
  /\ werr = [w \in Threads |-> ""]
  /\ wlog = [w \in Threads |-> <<>>]
  /\ ppc = [p \in Producers |-> "idle"]
  /\ pitem = [p \in Producers |-> NoJob]
  /\ prec = [p \in Producers |-> NoRec]
  /\ pres = [p \in Producers |-> NoResult]
  /\ clock = 0
  /\ nextId = 0
  /\ conn = [j \in JobIds |-> "none"]
  /\ deq = [j \in JobIds |-> 0]
  /\ ran = {}
  /\ pre = [j \in JobIds |-> {}]

\* What a caller submits as tear_delay_seconds: nothing, a number (whole
\* seconds here) or something that is not a number.
Submitted ==
  {[kind |-> "absent", v |-> 0], [kind |-> "bad", v |-> 0]}
    \cup {[kind |-> "num", v |-> n] : n \in (0 - 2)..MaxSubmitted}
\* default_tear_delay_seconds of the saved config (0 when the key is not set)
DefaultDelays == {0 - 1, 0, 5, 61}
EntryPoints == {"index", "submit_job", "print_template_api",
                "print_template_route", "mcp_submit_job", "mcp_print_template"}

\* what an entry point hands to enqueue_tasks: options = 0 stands for None
Enqueued(delay) == [returned |-> TRUE, enqueued |-> TRUE, options |-> delay]
\* the request was refused before any enqueue
Refused == [returned |-> TRUE, enqueued |-> FALSE, options |-> 0]

\* if delay < 0: delay = 0.0; if delay > 60: delay = 60.0
\* (routes.py:411-414, api.py:109-112, api_templates.py:267-270,
\* templates.py:461-464; max(0.0, min(60.0, v)) in mcp/tools.py:529, 537)
ClampDelay(d) == IF d < 0 THEN 0 ELSE IF d > 60 THEN 60 ELSE d

\* if delay > 0: options = {"tear_delay_seconds": delay}
OptionsFor(d) == IF d > 0 THEN d ELSE 0

\* Options._clamp_delay (schemas.py:224-236): None for absent, negative and
\* zero, 60 above 60; as 0 for None
SchemaClampDelay(sub) ==
  IF sub.kind # "num" \/ sub.v < 0 THEN 0
  ELSE IF sub.v > 60 THEN 60 ELSE sub.v

\* the global default, clamped (api_templates.py:262-274, templates.py:456-468)
DefaultOptions(dflt) == OptionsFor(ClampDelay(dflt))

\* routes.py:400-416  index: the form field
Index ==
  /\ call.fn = "index" /\ result = NoReturn
  /\ result' = IF call.submitted.kind = "absent" THEN Enqueued(0)
                ELSE IF call.submitted.kind = "bad" THEN Refused
                ELSE Enqueued(OptionsFor(ClampDelay(call.submitted.v)))
  /\ UNCHANGED <<JOB_QUEUE, JOBS, tvars, wvars, pvars, clock, nextId, conn,
                 deq, ran, pre, call>>

\* api.py:104-118  submit_job: options.tear_delay_seconds of the JSON body;
\* a value that is not a number is treated as absent
SubmitJob ==
  /\ call.fn = "submit_job" /\ result = NoReturn
  /\ result' = IF call.submitted.kind # "num" THEN Enqueued(0)
                ELSE Enqueued(OptionsFor(ClampDelay(call.submitted.v)))
  /\ UNCHANGED <<JOB_QUEUE, JOBS, tvars, wvars, pvars, clock, nextId, conn,
                 deq, ran, pre, call>>

\* api_templates.py:249-274  print_template_api: the validated override when
\* it is truthy, else the global default (an invalid body is ignored)
PrintTemplateApi ==
  /\ call.fn = "print_template_api" /\ result = NoReturn
  /\ LET options == SchemaClampDelay(call.submitted)
     IN  result' = IF options # 0 THEN Enqueued(options)
                   ELSE Enqueued(DefaultOptions(call.dflt))
  /\ UNCHANGED <<JOB_QUEUE, JOBS, tvars, wvars, pvars, clock, nextId, conn,
                 deq, ran, pre, call>>

\* templates.py:452-468  print_template_route: always the global default
PrintTemplateRoute ==
  /\ call.fn = "print_template_route" /\ result = NoReturn
  /\ result' = Enqueued(DefaultOptions(call.dflt))
  /\ UNCHANGED <<JOB_QUEUE, JOBS, tvars, wvars, pvars, clock, nextId, conn,
                 deq, ran, pre, call>>

\* mcp/tools.py:171-192  submit_job: validated by JobSubmitRequest, which
\* refuses what is not a number
McpSubmitJob ==
  /\ call.fn = "mcp_submit_job" /\ result = NoReturn
  /\ result' = IF call.submitted.kind = "bad" THEN Refused
                ELSE Enqueued(SchemaClampDelay(call.submitted))
  /\ UNCHANGED <<JOB_QUEUE, JOBS, tvars, wvars, pvars, clock, nextId, conn,
                 deq, ran, pre, call>>

\* mcp/tools.py:491-541  print_template: the parameter is declared with
\* ge=0, le=60, so other values are refused; None falls back to the default
McpPrintTemplate ==
  /\ call.fn = "mcp_print_template" /\ result = NoReturn
  /\ result' = IF call.submitted.kind = "absent"
                THEN Enqueued(DefaultOptions(call.dflt))
                ELSE IF call.submitted.kind = "bad"
                        \/ call.submitted.v < 0 \/ call.submitted.v > 60
                THEN Refused
                ELSE Enqueued(OptionsFor(ClampDelay(call.submitted.v)))
  /\ UNCHANGED <<JOB_QUEUE, JOBS, tvars, wvars, pvars, clock, nextId, conn,
                 deq, ran, pre, call>>

\* the job that enqueue_tasks puts on the queue for these options
JobWith(options) ==
  [type |-> "tasks", payload |-> <<"text">>, options |-> options, job_id |-> 1,
   config_override |-> FALSE]

InitOptions ==
  /\ Quiet
  /\ call \in [fn : EntryPoints, submitted : Submitted, dflt : DefaultDelays]
  \* print_template_route reads no value from the request
  /\ call.fn = "print_template_route" => call.submitted.kind = "absent"
  /\ result = NoReturn

NextOptions ==
  \/ Index
  \/ SubmitJob
  \/ PrintTemplateApi
  \/ PrintTemplateRoute
  \/ McpSubmitJob
  \/ McpPrintTemplate

\* SpecOptions: one request at one entry point, with every submitted value
\* and every saved default.
SpecOptions == InitOptions /\ [][NextOptions]_vars

\* ------------------------------------------------------------ render.py
\* A text is the sequence of its characters; a font is its size in pixels.
\* _measure_text (render.py:23-44): the width of the bounding box, here the
\* sum of the advances of the characters, a letter taking half the font size
\* and a space or a separator a quarter of it.
CharUnits(c) == IF c = "a" THEN 4 ELSE 2

MeasureText(font, text) ==
  LET letters == Cardinality({i \in 1..Len(text) : CharUnits(text[i]) = 4})
  IN  letters * ((4 * font) \div 8) + (Len(text) - letters) * ((2 * font) \div 8)

\* n letters
RECURSIVE Letters(_)
Letters(n) == IF n = 0 THEN <<>> ELSE <<"a">> \o Letters(n - 1)

\* word.split(sep): parts holds the parts closed so far, part the open one
RECURSIVE SplitFrom(_, _, _, _, _)
SplitFrom(word, sep, i, parts, part) ==
  IF i > Len(word) THEN Append(parts, part)
  ELSE IF word[i] = sep THEN SplitFrom(word, sep, i + 1, Append(parts, part), <<>>)
  ELSE SplitFrom(word, sep, i + 1, parts, Append(part, word[i]))

Split(word, sep) == SplitFrom(word, sep, 1, <<>>, <<>>)

Contains(word, c) == \E i \in 1..Len(word) : word[i] = c

\* the lines so far, with the open line when it holds something
Flush(lines, current) == IF current # <<>> THEN Append(lines, current) ELSE lines

\* render.py:188-203  break character by character, from character i on
RECURSIVE BreakCharsFrom(_, _, _, _, _, _)
BreakCharsFrom(word, i, pieces, current, font, max_width) ==
  IF i > Len(word)
  THEN (IF Flush(pieces, current) = <<>> THEN <<<<>>>> ELSE Flush(pieces, current))
  ELSE IF MeasureText(font, Append(current, word[i])) <= max_width
  THEN BreakCharsFrom(word, i + 1, pieces, Append(current, word[i]), font, max_width)
  ELSE BreakCharsFrom(word, i + 1, Flush(pieces, current), <<word[i]>>, font, max_width)

BreakByChars(word, font, max_width) ==
  BreakCharsFrom(word, 1, <<>>, <<>>, font, max_width)

\* render.py:172-182  the test string of part i and what current becomes when
\* the test string does not fit
SepTest(parts, sep, i, current) ==
  current \o (IF current # <<>> THEN <<sep>> ELSE <<>>) \o parts[i]
          \o (IF i < Len(parts) THEN <<sep>> ELSE <<>>)
SepRestart(parts, sep, i) ==
  parts[i] \o (IF i < Len(parts) THEN <<sep>> ELSE <<>>)

\* render.py:168-186  break at the separator sep, from part i on
RECURSIVE BreakSepFrom(_, _, _, _, _, _, _)
BreakSepFrom(parts, sep, i, pieces, current, font, max_width) ==
  IF i > Len(parts) THEN Flush(pieces, current)
  ELSE IF MeasureText(font, SepTest(parts, sep, i, current)) <= max_width
  THEN BreakSepFrom(parts, sep, i + 1, pieces, SepTest(parts, sep, i, current),
                    font, max_width)
  ELSE BreakSepFrom(parts, sep, i + 1, Flush(pieces, current),
                    SepRestart(parts, sep, i), font, max_width)

BreakAtSep(word, sep, font, max_width) ==
  BreakSepFrom(Split(word, sep), sep, 1, <<>>, <<>>, font, max_width)

\* _break_long_word (render.py:160-205)
BreakLongWord(word, font, max_width) ==
  IF word = <<>> THEN <<<<>>>>
  ELSE IF Contains(word, "-") /\ Len(word) > 8
       THEN BreakAtSep(word, "-", font, max_width)
  ELSE IF Contains(word, "_") /\ Len(word) > 8
       THEN BreakAtSep(word, "_", font, max_width)
  ELSE IF Contains(word, ".") /\ Len(word) > 8
       THEN BreakAtSep(word, ".", font, max_width)
  ELSE BreakByChars(word, font, max_width)

\* render.py:134  test_line = current_line + (" " if current_line else "") + word
TestLine(current, word) ==
  current \o (IF current # <<>> THEN <<" ">> ELSE <<>>) \o word

\* render.py:133-152  the loop over the words, from word i on
RECURSIVE WrapFrom(_, _, _, _, _, _)
WrapFrom(words, i, lines, current, font, max_width) ==
  IF i > Len(words)
  THEN (IF Flush(lines, current) = <<>> THEN <<<<>>>> ELSE Flush(lines, current))
  ELSE IF MeasureText(font, TestLine(current, words[i])) <= max_width
  THEN WrapFrom(words, i + 1, lines, TestLine(current, words[i]), font, max_width)
  ELSE IF current # <<>> /\ MeasureText(font, words[i]) <= max_width
  THEN WrapFrom(words, i + 1, Append(lines, current), words[i], font, max_width)
  ELSE WrapFrom(words, i + 1,
                Flush(lines, current) \o BreakLongWord(words[i], font, max_width),
                <<>>, font, max_width)

\* wrap_text_improved (render.py:113-157); words is text.split()
WrapTextImproved(words, font, max_width) ==
  WrapFrom(words, 1, <<>>, <<>>, font, max_width)

\* the words that are wrapped: letters, with or without one separator, and
\* words of three parts
Separators == {"-", "_", "."}
WrapWords ==
  {Letters(m) : m \in 1..MaxPart}
    \cup {Letters(m) \o <<sep>> \o Letters(n) :
            m \in 0..MaxPart, n \in 0..MaxPart, sep \in Separators}
    \cup {Letters(m) \o <<sep>> \o Letters(n) \o <<sep>> \o Letters(MaxPart) :
            m \in 1..2, n \in 1..2, sep \in Separators}
\* the texts: one such word, alone or after a short word
WrapTexts == {<<w>> : w \in WrapWords} \cup {<<Letters(2), w>> : w \in WrapWords}
WrapFonts == {8, 16}
WrapWidths == {10, 24, 40}

InitWrap ==
  /\ Quiet
  /\ call \in [fn : {"wrap_text_improved"}, words : WrapTexts,
                font : WrapFonts, max_width : WrapWidths]
  /\ result = NoReturn

WrapCall ==
  /\ call.fn = "wrap_text_improved" /\ result = NoReturn
  /\ result' = [returned |-> TRUE,
                lines |-> WrapTextImproved(call.words, call.font, call.max_width)]
  /\ UNCHANGED <<JOB_QUEUE, JOBS, tvars, wvars, pvars, clock, nextId, conn,
                 deq, ran, pre, call>>

NextWrap == WrapCall

\* SpecWrap: one call of wrap_text_improved
SpecWrap == InitWrap /\ [][NextWrap]_vars

\* " ".join(words): the text whose words are words
RECURSIVE JoinWords(_)
JoinWords(words) ==
  IF words = <<>> THEN <<>>
  ELSE IF Len(words) = 1 THEN Head(words)
  ELSE Head(words) \o <<" ">> \o JoinWords(Tail(words))

\* range(start, stop, -step) as a sequence
RECURSIVE DownRange(_, _, _)
DownRange(start, stop, step) ==
  IF start > stop THEN <<start>> \o DownRange(start - step, stop, step) ELSE <<>>

MaxOf(a, b) == IF a > b THEN a ELSE b
MinOf(a, b) == IF a < b THEN a ELSE b

\* _would_wrap_by_few_chars (render.py:208-249)
WouldWrapByFewChars(words, font, max_width, max_overflow_chars) ==
  LET lines == WrapTextImproved(words, font, max_width) IN
  IF words = <<>> THEN FALSE
  ELSE IF Len(lines) # 2 THEN FALSE
  ELSE \/ Len(lines[2]) <= max_overflow_chars
       \/ Len(words) = 2
       \/ Len(JoinWords(words)) <= 30

\* config.get("max_font_size", min(96, base_font_size + 24))  (render.py:272)
MaxFontSize(cfg) ==
  IF cfg.has_max THEN cfg.max_font_size ELSE MinOf(96, cfg.task_font_size + 24)

\* render.py:278-293  the few-characters case: the first size of
\* range(base - 2, max(min, base - 20), -2) at which the whole text fits on
\* one line, 0 when there is none
FewCharsSize(words, cfg, max_width) ==
  LET base == cfg.task_font_size
      sizes == DownRange(base - 2, MaxOf(cfg.min_font_size, base - 20), 2)
      fits == {k \in 1..Len(sizes) :
                 MeasureText(sizes[k], JoinWords(words)) <= max_width}
  IN  IF fits = {} THEN 0
      ELSE sizes[CHOOSE k \in fits : \A m \in fits : k <= m]

\* render.py:301-318  the general scan over range(max, min - 1, -4), from
\* the k-th size on; best is the best size so far with its line count
\* (found FALSE: none yet, best_size is still the base size)
RECURSIVE ScanFrom(_, _, _, _, _, _)
ScanFrom(words, cfg, max_width, sizes, k, best) ==
  IF k > Len(sizes) THEN best.size
  ELSE IF Len(WrapTextImproved(words, sizes[k], max_width)) > 6
  THEN ScanFrom(words, cfg, max_width, sizes, k + 1, best)
  ELSE LET line_count == Len(WrapTextImproved(words, sizes[k], max_width))
           better == \/ ~best.found
                     \/ line_count < best.lines
                     \/ (line_count = best.lines /\ sizes[k] > best.size)
           kept == IF better
                   THEN [found |-> TRUE, size |-> sizes[k], lines |-> line_count]
                   ELSE best
       IN  IF line_count = 3 /\ sizes[k] >= cfg.min_font_size + 8
           THEN kept.size
           ELSE ScanFrom(words, cfg, max_width, sizes, k + 1, kept)

\* render.py:295-325  the scan and the fallback to the base size
ScanSize(words, cfg, max_width) ==
  ScanFrom(words, cfg, max_width,
           DownRange(MaxFontSize(cfg), cfg.min_font_size - 1, 4), 1,
           [found |-> FALSE, size |-> cfg.task_font_size, lines |-> 0])

\* find_optimal_font_size (render.py:252-325): the size it returns
FindOptimalFontSize(words, cfg, max_width) ==
  LET few == FewCharsSize(words, cfg, max_width) IN
  IF WouldWrapByFewChars(words, cfg.task_font_size, max_width,
                         cfg.max_overflow_chars) /\ few # 0
  THEN few
  ELSE ScanSize(words, cfg, max_width)

\* texts of n words of len letters
RECURSIVE Repeat(_, _)
Repeat(word, n) == IF n = 0 THEN <<>> ELSE <<word>> \o Repeat(word, n - 1)
SizedTexts == {Repeat(Letters(len), n) : len \in {2, 6, 12, 20}, n \in 0..MaxWords}

\* the sizes the setup form can save (setup.py:110-116, 195-203): a base of
\* 60, 72 or 90, min in [16,96], max in [32,128] and not below min; has_max
\* is FALSE for a config written without the key
FontConfigs ==
  {c \in [task_font_size : {60, 72, 90}, min_font_size : {16, 32, 96},
           has_max : BOOLEAN, max_font_size : {40, 96, 104, 128},
           max_overflow_chars : {3}] :
      /\ c.min_font_size <= c.max_font_size
      /\ ~c.has_max => c.max_font_size = 96 /\ c.min_font_size <= MaxFontSize(c)}

InitFontSize ==
  /\ Quiet
  /\ call \in [fn : {"find_optimal_font_size"}, words : SizedTexts,
                cfg : FontConfigs, max_width : {200, 480}]
  /\ result = NoReturn

FontSizeCall ==
  /\ call.fn = "find_optimal_font_size" /\ result = NoReturn
  /\ result' = [returned |-> TRUE,
                size |-> FindOptimalFontSize(call.words, call.cfg, call.max_width)]
  /\ UNCHANGED <<JOB_QUEUE, JOBS, tvars, wvars, pvars, clock, nextId, conn,
                 deq, ran, pre, call>>

NextFontSize == FontSizeCall

\* SpecFontSize: one call of find_optimal_font_size
SpecFontSize == InitFontSize /\ [][NextFontSize]_vars

\* ---------------------------------------------------------- the rasters
\* the height of the bounding box of "A" (render.py:414-415, 537-538): three
\* quarters of the font size, at least 1
LineHeight(font) == MaxOf(1, (3 * font) \div 4)

\* Image.new("L", (width, height), 255): what is kept of a raster
Canvas(kind, width, height) == [kind |-> kind, width |-> width, height |-> height]

\* render.py:400, 417  the width left for the text and the height of a block
\* of lines
MaxTextWidth(cfg) ==
  MaxOf(1, cfg.receipt_width - (cfg.print_left_margin + cfg.print_right_margin))
TextBlockHeight(cfg, font, lines) ==
  cfg.print_top_margin + cfg.print_bottom_margin
    + (LineHeight(font) + 10) * Len(lines)

\* render.py:403-409, 524-533  the font: dynamic sizing when enabled
FontFor(words, cfg, max_width) ==
  IF cfg.enable_dynamic_font_sizing
  THEN FindOptimalFontSize(words, cfg, max_width)
  ELSE cfg.task_font_size

\* render_large_text_image (render.py:363-426)
RenderLargeTextImage(words, cfg) ==
  LET font == FontFor(words, cfg, MaxTextWidth(cfg))
      lines == WrapTextImproved(words, font, MaxTextWidth(cfg))
  IN  Canvas("text", cfg.receipt_width, TextBlockHeight(cfg, font, lines))

\* config.get("min_text_width", max(180, int(width * 0.45)))  (render.py:493)
MinTextWidth(cfg) ==
  IF cfg.has_min_text_width THEN cfg.min_text_width
  ELSE MaxOf(180, (cfg.receipt_width * 45) \div 100)

\* render.py:496, 505  separator, gaps and flair content
FlairBlockWidth(cfg, target) ==
  cfg.flair_separator_gap + cfg.flair_separator_width
    + cfg.flair_separator_gap + target

\* render.py:490-517  the two columns: the width of the text column and of
\* the flair content, after the shrink of a cramped layout
Columns(cfg) ==
  LET width == cfg.receipt_width
      margins == cfg.print_left_margin + cfg.print_right_margin
      text0 == width - margins - FlairBlockWidth(cfg, cfg.flair_col_width)
  IN  IF text0 < MinTextWidth(cfg)
      THEN LET target == MaxOf(128, cfg.flair_col_width - (MinTextWidth(cfg) - text0))
           IN  [text |-> MaxOf(width - margins - FlairBlockWidth(cfg, target), 1),
                flair |-> MaxOf(target, 1)]
      ELSE [text |-> text0, flair |-> cfg.flair_col_width]

\* round(num / den) for num >= 0 and den > 0: to the nearest integer, a
\* half to the even one
RoundHalfEven(num, den) ==
  LET q == num \div den
      twice == 2 * (num % den)
  IN  IF twice < den THEN q
      ELSE IF twice > den THEN q + 1
      ELSE IF q % 2 = 0 THEN q ELSE q + 1

\* render.py:545-546  the scale of the flair, as the fraction n / d:
\* min(target / fw, flair_target_height / fh), at most flair_icon_scale_max
\* and at least 0.01
FlairRatio(cfg, target, fw, fh) ==
  LET fit == IF target * fh <= cfg.flair_target_height * fw
             THEN [n |-> target, d |-> fw]
             ELSE [n |-> cfg.flair_target_height, d |-> fh]
      capped == IF fit.n <= cfg.flair_icon_scale_max * fit.d
                THEN fit ELSE [n |-> cfg.flair_icon_scale_max, d |-> 1]
  IN  IF capped.n * 100 >= capped.d THEN capped ELSE [n |-> 1, d |-> 100]

\* render.py:542-548  the size of the flair after scaling
ScaledFlair(cfg, target, flair) ==
  LET fw == MaxOf(1, flair.w)
      fh == MaxOf(1, flair.h)
      ratio == FlairRatio(cfg, target, fw, fh)
  IN  [w |-> MaxOf(1, RoundHalfEven(fw * ratio.n, ratio.d)),
       h |-> MaxOf(1, RoundHalfEven(fh * ratio.n, ratio.d))]

\* render.py:577-583  the left column of the rule, clamped
SepXLeft(cfg, target) ==
  MaxOf(cfg.print_left_margin,
        MinOf(cfg.receipt_width - cfg.print_right_margin - target
                - cfg.flair_separator_gap - cfg.flair_separator_width,
              cfg.receipt_width - cfg.print_right_margin
                - cfg.flair_separator_width))

\* render.py:600-604  where the scaled flair is pasted, clamped
PasteAt(cfg, target, out_h, new) ==
  LET flair_left == cfg.receipt_width - cfg.print_right_margin - target
      x == flair_left + MaxOf(0, (target - new.w) \div 2)
      y == cfg.print_top_margin
             + MaxOf(0, (out_h - (cfg.print_top_margin + cfg.print_bottom_margin)
                           - new.h) \div 2)
  IN  [x |-> MaxOf(0, MinOf(x, cfg.receipt_width - new.w)),
       y |-> MaxOf(0, MinOf(y, out_h - new.h))]

\* render.py:563-613  the composed raster: the canvas, the two columns, the
\* rectangle of the rule and the box the flair is pasted into
Composed(cfg, cols, width, out_h, flair) ==
  LET new == ScaledFlair(cfg, cols.flair, flair)
      at == PasteAt(cfg, cols.flair, out_h, new)
  IN  [kind |-> "flair", width |-> width, height |-> out_h,
       text_col |-> cols.text, flair_target |-> cols.flair,
       rule |-> [left |-> SepXLeft(cfg, cols.flair),
                 right |-> SepXLeft(cfg, cols.flair)
                             + cfg.flair_separator_width - 1,
                 top |-> cfg.print_top_margin,
                 bottom |-> out_h - cfg.print_bottom_margin],
       paste |-> [x |-> at.x, y |-> at.y, w |-> new.w, h |-> new.h]]

RenderTaskWithFlairImageNarrow(words, flair_loads, flair, cfg) ==
  LET cols == Columns(cfg)
      safe == MaxOf(1, cols.text - cfg.text_safety_margin)
      font == FontFor(words, cfg, safe)
      lines == WrapTextImproved(words, font, safe)
  IN  IF ~flair_loads THEN RenderLargeTextImage(words, cfg)
      ELSE IF cols.text <= 0 \/ cols.flair <= 0
      THEN RenderLargeTextImage(words, cfg)
      ELSE Composed(cfg, cols, cols.text + FlairBlockWidth(cfg, cols.flair),
                    MaxOf(TextBlockHeight(cfg, font, lines),
                          cfg.print_top_margin + cfg.print_bottom_margin
                            + cfg.flair_target_height),
                    flair)

\* render_task_with_flair_image (render.py:429-615): the raster it returns.
\* flair_loads: the flair image could be opened (lines 467-474); flair: the
\* width and height of the flair image.
RenderTaskWithFlairImage(words, flair_loads, flair, cfg) ==
  LET cols == Columns(cfg)
      safe == MaxOf(1, cols.text - cfg.text_safety_margin)
      font == FontFor(words, cfg, safe)
      lines == WrapTextImproved(words, font, safe)
  IN  IF ~flair_loads THEN RenderLargeTextImage(words, cfg)
      ELSE IF cols.text <= 0 \/ cols.flair <= 0
      THEN RenderLargeTextImage(words, cfg)
      ELSE Composed(cfg, cols, cfg.receipt_width,
                    MaxOf(TextBlockHeight(cfg, font, lines),
                          cfg.print_top_margin + cfg.print_bottom_margin
                            + cfg.flair_target_height),
                    flair)

\* the configurations: widths and columns the setup form can save
\* (setup.py:99, 156-190) and some only a hand-written config can hold
\* (a flair column of 0, a negative min_text_width); the two side margins
\* are taken equal
RenderConfigs ==
  {c \in [receipt_width : {280, 384, 512, 576},
           print_left_margin : {16, 50}, print_right_margin : {16, 50},
           print_top_margin : {12}, print_bottom_margin : {16},
           flair_separator_width : {3}, flair_separator_gap : {14, 64},
           flair_col_width : {0, 96, 256, 512},
           has_min_text_width : BOOLEAN, min_text_width : {0 - 300, 100},
           flair_target_height : {256}, flair_icon_scale_max : {2},
           text_safety_margin : {8},
           enable_dynamic_font_sizing : BOOLEAN,
           task_font_size : {72}, min_font_size : {32}, has_max : {FALSE},
           max_font_size : {96}, max_overflow_chars : {3}] :
      c.print_left_margin = c.print_right_margin}
\* the flair images: width and height in pixels
FlairSizes ==
  {[w |-> 1, h |-> 1], [w |-> 64, h |-> 64], [w |-> 512, h |-> 512],
   [w |-> 300, h |-> 100], [w |-> 100, h |-> 600],
   [w |-> 60000, h |-> 10], [w |-> 10, h |-> 60000]}
RenderTexts == {<<>>, <<Letters(6)>>, Repeat(Letters(12), 3)}

InitRender ==
  /\ Quiet
  /\ call \in [fn : {"render_large_text_image", "render_task_with_flair_image"},
                words : RenderTexts, flair_loads : BOOLEAN, flair : FlairSizes,
                cfg : RenderConfigs]
  \* render_large_text_image takes no flair, and a flair that cannot be
  \* opened has no size
  /\ (call.fn = "render_large_text_image" \/ ~call.flair_loads) =>
        call.flair = [w |-> 1, h |-> 1]
  /\ call.fn = "render_large_text_image" => call.flair_loads
  /\ result = NoReturn

RenderTextCall ==
  /\ call.fn = "render_large_text_image" /\ result = NoReturn
  /\ result' = [returned |-> TRUE,
                image |-> RenderLargeTextImage(call.words, call.cfg)]
  /\ UNCHANGED <<JOB_QUEUE, JOBS, tvars, wvars, pvars, clock, nextId, conn,
                 deq, ran, pre, call>>

RenderFlairCall ==
  /\ call.fn = "render_task_with_flair_image" /\ result = NoReturn
  /\ result' = [returned |-> TRUE,
                image |-> RenderTaskWithFlairImage(call.words, call.flair_loads,
                                                   call.flair, call.cfg)]
  /\ UNCHANGED <<JOB_QUEUE, JOBS, tvars, wvars, pvars, clock, nextId, conn,
                 deq, ran, pre, call>>

NextRender ==
  \/ RenderTextCall
  \/ RenderFlairCall

\* SpecRender: one call of one of the two renderers
SpecRender == InitRender /\ [][NextRender]_vars

\* ------------------------------------------------------------- claims
Statuses == {"queued", "running", "success", "error"}
Terminal == {"success", "error"}
Running == {i \in 1..Len(JOBS) : JOBS[i].status = "running"}
InQueue(j) == \E i \in 1..Len(JOB_QUEUE) : JOB_QUEUE[i].job_id = j
Held(j) == \E w \in Threads : wjob[w].job_id = j
Count(seq, op) == Cardinality({i \in 1..Len(seq) : seq[i][1] = op})
Faulted(seq) ==
  \E i \in 1..Len(seq) :
     seq[i][1] \in {"noconfig", "connect_fail", "render_fail", "write_fail"}
AllText(job) ==
  /\ job.type = "tasks"
  /\ \A i \in 1..Len(job.payload) : job.payload[i] = "text"

\* C1: FIFO. When the status of job B is set to running, every job A whose
\* enqueue call had returned before B's enqueue call began has had its
\* status set to running already.
C1_FIFO ==
  [][\A b \in JobIds : (b \in ran' /\ b \notin ran) => pre[b] \subseteq ran]_vars

\* C2: ensure_worker is idempotent. However many calls were made, one after
\* another or concurrently, at most one thread runs the worker loop, and
\* exactly one once a call has recorded the start.
C2_OneConsumer ==
  /\ Cardinality(workers) <= 1
  /\ WORKER_STARTED => Cardinality(workers) = 1

\* C3: the status of a job only moves queued -> running -> success | error.
\* In every step the status of every job either stays, or takes one of these
\* moves, or the record appears (queued) or is evicted; a terminal status is
\* never left for another status.
C3_Monotonic ==
  [][\A j \in JobIds :
       LET s == GetJob(JOBS, j)
           t == GetJob(JOBS', j)
       IN  \/ s = t
           \/ <<s, t>> \in {<<"none", "queued">>, <<"queued", "running">>,
                            <<"running", "success">>, <<"running", "error">>}
           \/ s \in Statuses /\ t = "none"]_vars

C3_Witness ==
  \E i, k \in 1..Len(JOBS) : JOBS[i].status = "success" /\ JOBS[k].status = "error"

\* C4: an exception in one job never ends the worker loop. A started worker
\* never stops; when it ends a job, through the handler or not, it goes back
\* to the queue, and the status it leaves is error exactly when something
\* failed in that very job, whatever happened to the jobs before.
C4_JobBoundary ==
  [][\A w \in Threads :
       /\ wpc'[w] # "stopped"
       /\ (wpc[w] \in {"finish", "except"} /\ wpc'[w] # wpc[w]) =>
            /\ wpc'[w] = "get"
            /\ wjob[w].job_id \in Ids(JOBS') =>
                 GetJob(JOBS', wjob[w].job_id) =
                   (IF Faulted(wlog[w]) THEN "error" ELSE "success")]_vars

\* a job failed through the handler, and the job after it succeeded
C4_Witness ==
  \E i, k \in 1..Len(JOBS) :
     /\ JOBS[i].id < JOBS[k].id
     /\ JOBS[i].status = "error" /\ JOBS[i].error # ""
     /\ JOBS[k].status = "success"

\* C5: tear-off law. For a tasks job whose N items all have text: with a
\* delay d > 0 the worker never cuts, every sleep lasts d, and a run that
\* completes has slept exactly N-1 times; without a delay it never sleeps
\* and a run that completes has cut exactly N times.
C5_TearOff ==
  \A w \in Threads :
     LET job == wjob[w]
         N == Len(job.payload)
         d == job.options
     IN  AllText(job) =>
           /\ d > 0 =>
                /\ Count(wlog[w], "cut") = 0
                /\ Count(wlog[w], "sleep") <= N - 1
                /\ \A i \in 1..Len(wlog[w]) :
                      wlog[w][i][1] = "sleep" => wlog[w][i][2] = d
           /\ ~(d > 0) =>
                /\ Count(wlog[w], "sleep") = 0
                /\ Count(wlog[w], "cut") <= N
           /\ (wpc[w] = "finish" /\ wok[w]) =>
                IF d > 0 THEN Count(wlog[w], "sleep") = N - 1
                         ELSE Count(wlog[w], "cut") = N

\* a tear-off job of at least two items has been printed to the end
C5_Witness ==
  \E w \in Threads :
     /\ wpc[w] = "finish" /\ wok[w]
     /\ AllText(wjob[w]) /\ wjob[w].options > 0 /\ Len(wjob[w].payload) >= 2

\* C6: registry pruning. An insert into a registry that holds JOBS_MAX jobs
\* first evicts exactly the job with the smallest created_at, so that the
\* registry holds JOBS_MAX jobs afterwards.
C6_PruneAtMax ==
  [][\A p \in Producers :
       (ppc[p] = "enq_create" /\ ppc'[p] = "enq_put" /\ Len(JOBS) = JOBS_MAX) =>
          /\ Len(JOBS') = JOBS_MAX
          /\ Ids(JOBS) \ Ids(JOBS') = {JOBS[OldestIndex(JOBS)].id}]_vars

C8_Serialized ==
  /\ Cardinality(Running) <= 1
  /\ Cardinality({j \in JobIds : conn[j] = "open"}) <= 1

Handled(j) ==
  /\ deq[j] >= 1
  /\ ~Held(j)
  /\ GetJob(JOBS, j) \in Terminal \cup {"none"}

C10_NoRetry ==
  /\ \A j \in JobIds : deq[j] <= 1 /\ (InQueue(j) => deq[j] = 0)
  /\ \A i, k \in 1..Len(JOB_QUEUE) :
        i # k => JOB_QUEUE[i].job_id # JOB_QUEUE[k].job_id
  /\ \A w \in Threads :
        Count(wlog[w], "connect") + Count(wlog[w], "connect_fail") <= 1
  /\ \A i \in 1..Len(JOBS) :
        JOBS[i].status \in Terminal =>
           deq[JOBS[i].id] = 1 /\ ~Held(JOBS[i].id)

\* a job has ended in error after a failed connect and the worker waits for
\* the next job
C10_Witness ==
  /\ \E i \in 1..Len(JOBS) : JOBS[i].status = "error" /\ JOBS[i].error = ""
  /\ \A w \in workers : wpc[w] = "get"
  /\ JOB_QUEUE = <<>>

\* the record of job j in the registry (NoRec when it has none)
RecOf(js, j) ==
  IF j \in Ids(js) THEN js[CHOOSE i \in 1..Len(js) : js[i].id = j] ELSE NoRec

\* C11: a job is marked success only if its whole item sequence completed;
\* when the connect, a render or a write raised during a tasks job, the
\* status written at the end of the job is error and the error field of the
\* record holds a message.
C11_ErrorMessage ==
  [][\A w \in Threads :
       (wpc[w] = "finish" /\ wpc'[w] = "get" /\ wjob[w].type = "tasks"
        /\ wjob[w].job_id \in Ids(JOBS')) =>
          LET r == RecOf(JOBS', wjob[w].job_id) IN
          /\ r.status = "success" =>
                /\ ~Faulted(wlog[w])
                /\ widx[w] = Len(wjob[w].payload) + 1
          /\ Faulted(wlog[w]) => (r.status = "error" /\ r.error # "")]_vars

\* C12: every transport handle opened for a job is closed before the job
\* has a terminal status.
C12_HandleClosed ==
  \A i \in 1..Len(JOBS) :
     JOBS[i].status \in Terminal => conn[JOBS[i].id] # "open"

\* C14: when no configuration is found for a tasks or test job, nothing else
\* is done for that job: no connect, no render, no write, no cut; the job
\* goes to the handler, which writes status error with a message.
C14_ConfigMissing ==
  /\ [](\A w \in Threads :
          Count(wlog[w], "noconfig") > 0 =>
             /\ wlog[w] = <<<<"noconfig", 0>>>>
             /\ wpc[w] = "except"
             /\ wjob[w].type \in {"tasks", "test"}
             /\ conn[wjob[w].job_id] = "none")
  /\ [][\A w \in Threads :
          (wpc[w] = "except" /\ wpc'[w] # "except"
           /\ wjob[w].job_id \in Ids(JOBS')) =>
             LET r == RecOf(JOBS', wjob[w].job_id) IN
             r.status = "error" /\ r.error # ""]_vars

\* a tasks job and a test job have both ended this way
C14_Witness ==
  \E i, k \in 1..Len(JOBS) :
     /\ JOBS[i].type = "tasks" /\ JOBS[k].type = "test"
     /\ \A n \in {i, k} :
           /\ JOBS[n].status = "error"
           /\ JOBS[n].error = "No config found"
           /\ conn[JOBS[n].id] = "none"

\* C16: frame of _update_job.  A step of the worker that calls it leaves the
\* queue and the set of records as they are; with an id that is not in the
\* registry no record changes; with a known id only status, error and
\* updated_at of that one record may change, error only in the handler.
C16_UpdateFrame ==
  [][\A w \in Threads :
       (wpc[w] \in {"mark", "finish", "except"} /\ wpc'[w] # wpc[w]) =>
          /\ JOB_QUEUE' = JOB_QUEUE
          /\ Len(JOBS') = Len(JOBS)
          /\ wjob[w].job_id \notin Ids(JOBS) => JOBS' = JOBS
          /\ \A i \in 1..Len(JOBS) :
                IF JOBS[i].id # wjob[w].job_id
                THEN JOBS'[i] = JOBS[i]
                ELSE /\ \A f \in DOMAIN JOBS[i] \ {"status", "error", "updated_at"} :
                           JOBS'[i][f] = JOBS[i][f]
                     /\ wpc[w] # "except" => JOBS'[i].error = JOBS[i].error
                     /\ JOBS'[i].updated_at = clock']_vars

\* the worker has run _update_job on a job whose record had been evicted,
\* while two other records were in the registry
C16_Witness ==
  \E w \in Threads :
     /\ wpc[w] = "run"
     /\ deq[wjob[w].job_id] = 1
     /\ wjob[w].job_id \notin ran
     /\ Len(JOBS) = JOBS_MAX + 1

\* the indices of the raster writes of a log, in the order they were made
Rasters(seq) ==
  LET only == SelectSeq(seq, LAMBDA e : e[1] = "image")
  IN  [n \in 1..Len(only) |-> only[n][2]]

\* the indices of the items with text among the first n, in submitted order
RECURSIVE TextIndices(_, _)
TextIndices(items, n) ==
  IF n = 0 THEN <<>>
  ELSE TextIndices(items, n - 1) \o (IF items[n] = "text" THEN <<n>> ELSE <<>>)

\* C13: an item whose text is empty is skipped entirely.  The step of the
\* worker over such an item adds nothing to what was done for the job (no
\* transport call, no cut, no sleep), and a job printed to the end has made
\* one raster write per item with text, in submitted order.
C13_EmptySkipped ==
  /\ [](\A w \in Threads :
          (wpc[w] = "finish" /\ wok[w]) =>
             Rasters(wlog[w]) =
                TextIndices(ItemsOf(wjob[w]), Len(ItemsOf(wjob[w]))))
  /\ [][\A w \in Threads :
          (wpc[w] = "items" /\ widx'[w] = widx[w] + 1
           /\ ItemsOf(wjob[w])[widx[w]] = "empty") => wlog'[w] = wlog[w]]_vars

\* C15: when the flair of an item raises and nothing else does, the item is
\* still printed as exactly one text-only raster and the worker goes on to
\* the next item; a job in which nothing but flair raised is printed to the
\* end, one raster per item, and ends success.
C15_FlairFallback ==
  /\ [](\A w \in Threads :
          (wpc[w] = "finish" /\ ~Faulted(wlog[w])) =>
             /\ wok[w]
             /\ \A i \in 1..Len(ItemsOf(wjob[w])) :
                   /\ Cardinality({n \in 1..Len(wlog[w]) :
                         wlog[w][n] \in {<<"image", i>>, <<"image_flair", i>>}}) = 1
                   /\ (\E n \in 1..Len(wlog[w]) : wlog[w][n] = <<"flair_fail", i>>) =>
                         \E n \in 1..Len(wlog[w]) : wlog[w][n] = <<"image", i>>)
  /\ [][\A w \in Threads :
          (wpc[w] = "finish" /\ wpc'[w] = "get" /\ ~Faulted(wlog[w])
           /\ wjob[w].job_id \in Ids(JOBS')) =>
             RecOf(JOBS', wjob[w].job_id).status = "success"]_vars

\* the flair of the first of two items raised and the job was printed to
\* the end
C15_Witness ==
  \E w \in Threads :
     /\ wpc[w] = "finish" /\ wok[w]
     /\ Len(ItemsOf(wjob[w])) = 2
     /\ \E n \in 1..Len(wlog[w]) : wlog[w][n] = <<"flair_fail", 1>>
     /\ \E n \in 1..Len(wlog[w]) : wlog[w][n] = <<"image", 2>>

\* C17: tear_delay_seconds is clamped to [0,60] at every entry point.  For
\* every number submitted with a request that reaches enqueue, the delay the
\* worker uses is none when the number is negative or zero, the number
\* itself in (0,60], and 60 above 60; where the entry point has no saved
\* default to fall back on, an absent value gives no delay either.
C17_Clamped ==
  (result # NoReturn /\ result.enqueued) =>
     LET used == DelayOf(JobWith(result.options))
         sub == call.submitted
     IN  /\ sub.kind = "num" =>
              used = (IF sub.v <= 0 THEN 0 ELSE IF sub.v > 60 THEN 60 ELSE sub.v)
         /\ (sub.kind = "absent" /\ call.fn \in {"index", "submit_job", "mcp_submit_job"}) =>
              ~TearMode(JobWith(result.options))

\* C19: every line returned by wrap_text_improved that has more than one
\* character is at most max_width wide, the pieces of a word split at '-',
\* '_' or '.' included.
C19_LinesFit ==
  (call.fn = "wrap_text_improved" /\ result # NoReturn) =>
     \A n \in 1..Len(result.lines) :
        Len(result.lines[n]) > 1 =>
           MeasureText(call.font, result.lines[n]) <= call.max_width

\* C20: the size returned by find_optimal_font_size lies in
\* [min_font_size, max_font_size].
C20_SizeInRange ==
  (call.fn = "find_optimal_font_size" /\ result # NoReturn) =>
     /\ call.cfg.min_font_size <= result.size
     /\ result.size <= MaxFontSize(call.cfg)

\* C18: every raster returned by the text-only renderer and by the
\* text-with-flair renderer, the text-only fallbacks of the latter included,
\* is exactly receipt_width wide.
C18_CanvasWidth ==
  (call.fn \in {"render_large_text_image", "render_task_with_flair_image"}
   /\ result # NoReturn) =>
     result.image.width = call.cfg.receipt_width

\* the flair renderer fell back to text only because the layout was
\* infeasible although the flair image had loaded
C18_Witness ==
  /\ call.fn = "render_task_with_flair_image"
  /\ result # NoReturn
  /\ call.flair_loads
  /\ result.image.kind = "text"

\* C21: in the few-characters case (the text wraps to exactly 2 lines at the
\* base size and the second line is short, or there are exactly two words,
\* or the text has at most 30 characters) find_optimal_font_size returns
\* the first size among base-2, base-4, ... down to min_font_size at which
\* the whole text fits on one line, whenever there is such a size.
C21_FirstFit ==
  (/\ call.fn = "find_optimal_font_size" /\ result # NoReturn
   /\ WouldWrapByFewChars(call.words, call.cfg.task_font_size, call.max_width,
                          call.cfg.max_overflow_chars)) =>
     LET base == call.cfg.task_font_size
         fits == {s \in call.cfg.min_font_size..(base - 2) :
                    /\ (base - s) % 2 = 0
                    /\ MeasureText(s, JoinWords(call.words)) <= call.max_width}
     IN  fits # {} => \A s \in fits : s <= result.size /\ result.size \in fits

\* C22: for a text that wraps to more than one line at the base size, the
\* size returned by find_optimal_font_size wraps the text, at the same
\* max_width, into no more lines than the base size does.
C22_NoMoreLines ==
  (/\ call.fn = "find_optimal_font_size" /\ result # NoReturn
   /\ Len(WrapTextImproved(call.words, call.cfg.task_font_size,
                           call.max_width)) > 1) =>
     Len(WrapTextImproved(call.words, result.size, call.max_width))
       <= Len(WrapTextImproved(call.words, call.cfg.task_font_size,
                               call.max_width))

\* C23: in the text-with-flair layout, when the text column is narrower
\* than min_text_width the flair column target is reduced by the deficit,
\* never below 128 px, and when the text column is still infeasible (not
\* positive) after that, the renderer returns the text-only raster, with no
\* rule and no flair, instead of composing.
C23_ShrinkThenFallback ==
  (/\ call.fn = "render_task_with_flair_image" /\ result # NoReturn
   /\ call.flair_loads) =>
     LET cfg == call.cfg
         room == cfg.receipt_width - cfg.print_left_margin
                   - cfg.print_right_margin
         text0 == room - FlairBlockWidth(cfg, cfg.flair_col_width)
         target == MaxOf(128, cfg.flair_col_width - (MinTextWidth(cfg) - text0))
     IN  text0 < MinTextWidth(cfg) =>
           IF room - FlairBlockWidth(cfg, target) <= 0
           THEN result.image.kind = "text"
           ELSE /\ result.image.kind = "flair"
                /\ result.image.flair_target = target
                /\ result.image.text_col = room - FlairBlockWidth(cfg, target)

\* C24: in a composed raster no drawing targets coordinates outside the
\* canvas: the columns of the vertical rule lie within
\* [left_margin, receipt_width - right_margin), and the flair is pasted at
\* (x, y) with 0 <= x, x + flair width <= receipt_width, 0 <= y and
\* y + flair height <= canvas height.
C24_InsideCanvas ==
  (/\ call.fn = "render_task_with_flair_image" /\ result # NoReturn
   /\ result.image.kind = "flair") =>
     LET img == result.image
         cfg == call.cfg
     IN  /\ cfg.print_left_margin <= img.rule.left
         /\ img.rule.left <= img.rule.right
         /\ img.rule.right < cfg.receipt_width - cfg.print_right_margin
         /\ 0 <= img.paste.x
         /\ img.paste.x + img.paste.w <= cfg.receipt_width
         /\ 0 <= img.paste.y
         /\ img.paste.y + img.paste.h <= img.height

\* the transport calls made so far for the job of worker w
Called(w, e) == \E n \in 1..Len(wlog[w]) : wlog[w][n] = e
Before(w, e, f) ==
  \E m, n \in 1..Len(wlog[w]) : m < n /\ wlog[w][m] = e /\ wlog[w][n] = f

\* C25: flair dispatch in the worker.  For every item printed without a
\* failure of its flair: an icon, an image or an emoji is written as the one
\* raster that composes text and flair; for a QR code the transport's QR
\* primitive is called and then a text-only raster is written; an item
\* without flair is written as a text-only raster.
C25_FlairDispatch ==
  \A w \in Threads :
     wpc[w] \in {"items", "finish"} =>
        \A i \in 1..(widx[w] - 1) :
           LET kind == ItemsOf(wjob[w])[i] IN
           ~Called(w, <<"flair_fail", i>>) =>
              /\ kind \in {"icon", "image", "emoji"} =>
                   Called(w, <<"image_flair", i>>) /\ ~Called(w, <<"image", i>>)
              /\ kind = "qr" =>
                   /\ Before(w, <<"qr", i>>, <<"image", i>>)
                   /\ ~Called(w, <<"image_flair", i>>)
              /\ kind = "text" =>
                   Called(w, <<"image", i>>) /\ ~Called(w, <<"image_flair", i>>)

\* the pieces of a word, put together again
RECURSIVE ConcatAll(_)
ConcatAll(pieces) ==
  IF pieces = <<>> THEN <<>> ELSE Head(pieces) \o ConcatAll(Tail(pieces))

\* C26: splitting an over-wide word preserves its characters.  For a text
\* of one word that is wider than max_width, the lines returned are the
\* pieces of the word, and concatenated in order they are the word itself:
\* every '-', '_' or '.' is kept once and no character is lost, duplicated
\* or reordered.
C26_SplitPreserves ==
  (/\ call.fn = "wrap_text_improved" /\ result # NoReturn
   /\ Len(call.words) = 1
   /\ MeasureText(call.font, call.words[1]) > call.max_width) =>
     ConcatAll(result.lines) = call.words[1]

\* C27: within one job the items are handled in submitted order and each
\* item with text produces exactly one raster write; with cutting enabled
\* the cut of item i comes after the raster write of item i and before any
\* transport call of a later item, and every item written is cut; in
\* tear-off mode each sleep comes directly after the raster write of the
\* item it follows and before the first transport call of the next item.
C27_ItemOrder ==
  \A w \in Threads :
     wpc[w] \in {"items", "finish"} =>
        LET log == wlog[w]
            job == wjob[w]
            items == ItemsOf(job)
            written == Rasters(log)
        IN  /\ \A m, n \in 1..Len(written) : m < n => written[m] < written[n]
            /\ \A i \in 1..(widx[w] - 1) :
                  items[i] = "text" =>
                     Cardinality({n \in 1..Len(log) : log[n] = <<"image", i>>}) = 1
            /\ \A n \in 1..Len(log) :
                  log[n][1] = "cut" =>
                     /\ ~TearMode(job)
                     /\ n > 1 /\ log[n - 1] = <<"image", log[n][2]>>
                     /\ \A k \in 1..Len(log) :
                           (log[k][1] = "image" /\ log[k][2] > log[n][2]) => k > n
            /\ \A i \in 1..(widx[w] - 1) :
                  (items[i] = "text" /\ ~TearMode(job)) => Called(w, <<"cut", i>>)
            /\ \A n \in 1..Len(log) :
                  log[n][1] = "sleep" =>
                     /\ TearMode(job)
                     /\ n > 1 /\ log[n - 1][1] = "image"
                     /\ \A k \in 1..Len(log) :
                           (log[k][1] = "image" /\ k > n) => log[k][2] > log[n - 1][2]

\* C28: jobs become Running in the order in which their records were
\* inserted into the registry.  When the status of job B is set to running,
\* every job whose record stands before B's in the registry (it was inserted
\* earlier) has had its status set to running already, also when the
\* enqueue calls overlap.
C28_CreationOrder ==
  [][\A b \in JobIds :
       (b \in ran' /\ b \notin ran) =>
          \A i, k \in 1..Len(JOBS) :
             (i < k /\ JOBS[k].id = b) => JOBS[i].id \in ran]_vars

\* C29: a job whose status is queued or running is never evicted by
\* pruning.  A record that leaves the registry has reached success or
\* error, so that get_job finds every job until then, however many jobs are
\* enqueued meanwhile.
C29_LiveJobsKept ==
  [][\A i \in 1..Len(JOBS) :
       JOBS[i].id \notin Ids(JOBS') => JOBS[i].status \in Terminal]_vars

\* C30: the registry never holds more than JOBS_MAX + 1 records, whatever
\* the producers do concurrently, and one step of one enqueue removes at
\* most one record.
C30_RegistryBound ==
  /\ [](Len(JOBS) <= JOBS_MAX + 1)
  /\ [][Cardinality(Ids(JOBS) \ Ids(JOBS')) <= 1]_vars

\* every enqueue has inserted its record, the registry is full and the
\* first job has been evicted
C30_Witness ==
  /\ nextId = MaxJobs
  /\ \A p \in Producers : ppc[p] # "enq_create"
  /\ Len(JOBS) = JOBS_MAX + 1
  /\ 1 \notin Ids(JOBS)

====
